---- MODULE Spec2Model ----
(***************************************************************************)
(* A model of py-money's Money value type (src/money/money.py).            *)
(*                                                                         *)
(* Decimal numbers.  A Money amount is kept as an integer number of ulps,  *)
(* one ulp being 10^-FracDigits of a currency unit (Unit ulps per unit).   *)
(* An intermediate Decimal (a product, a quotient, a constructor input) is *)
(* a record [num, den] with den > 0 standing for num/den ulps, so that     *)
(* products and quotients are exact before they are quantized.  A scalar   *)
(* operand (int, float, Decimal) is a record [num, den] standing for the   *)
(* pure number num/den.  Python's Decimal context rounds a quotient to 28  *)
(* significant digits; within the bounds below a quotient that is not a    *)
(* rounding tie is further than 10^-28 away from every tie, so the exact   *)
(* quotient and the 28 digit one quantize alike.                           *)
(***************************************************************************)
EXTENDS Integers, FiniteSets, Sequences, TLC

\* ------------------------------------------------------------------ bounds

\* Fractional digits a modelled Decimal can carry.
FracDigits == 4

\* Largest magnitude, in whole currency units, of an amount kept in the pool.
MaxUnits == 12

\* Number of Money values the caller keeps alive at once.
MaxPool == 2

\* from_sub_units is tried on every count 0..MaxSubUnits (and a few larger).
MaxSubUnits == 12

RECURSIVE Pow10(_)
Pow10(k) == IF k = 0 THEN 1 ELSE 10 * Pow10(k - 1)

Unit == Pow10(FracDigits)

Abs(n) == IF n < 0 THEN -n ELSE n

Sign(n) == IF n < 0 THEN -1 ELSE 1

\* ------------------------------------------------- currency registry
\* money/currency.py (Currency, CurrencyHelper) is imported by money.py; the
\* entries are the ones the tests rely on (USD, JPY, KWD, GNF) and one whose
\* display precision exceeds its sub-unit digits (XTS).

Currency == {"USD", "JPY", "KWD", "GNF", "XTS"}

sub_unit_for_currency(c) ==
    CASE c = "USD" -> 100
      [] c = "JPY" -> 1
      [] c = "KWD" -> 1000
      [] c = "GNF" -> 100
      [] c = "XTS" -> 10

decimal_precision_for_currency(c) ==
    CASE c = "USD" -> 2
      [] c = "JPY" -> 0
      [] c = "KWD" -> 3
      [] c = "GNF" -> 0
      [] c = "XTS" -> 2

\* --------------------------------------------------------------- rounding

\* Decimal(str(1 / n).rstrip("0")): the quantum 1/n written as a decimal; what
\* quantize uses of it is its number of fractional digits.
QuantumDigits(n) == CHOOSE k \in 0..FracDigits : Pow10(k) = n

\* The round-up bug: every value that is not below a multiple goes one up.
quantize_AlwaysUp(x, digits) ==
    LET step == Unit \div Pow10(digits)
        D    == x.den * step
    IN  Sign(x.num) * ((Abs(x.num) \div D) + 1) * step

\* Decimal.quantize(quantum, rounding=ROUND_HALF_UP): x to `digits` fractional
\* digits, a tie going away from zero.  The result is in ulps.
quantize(x, digits) ==
    LET step == Unit \div Pow10(digits)
        D    == x.den * step
        q    == Abs(x.num) \div D
        r    == Abs(x.num) % D
    IN  Sign(x.num) * (IF 2 * r >= D THEN q + 1 ELSE q) * step

Dec(n) == [num |-> n, den |-> 1]

\* Only the first stage: the display precision is never applied.
round_SubUnitsOnly(amount, currency) ==
    quantize(amount, QuantumDigits(sub_unit_for_currency(currency)))

\* Money._round
_round(amount, currency) ==
    LET sub_units           == sub_unit_for_currency(currency)
        rounded_to_subunits == quantize(amount, QuantumDigits(sub_units))
        decimal_precision   == decimal_precision_for_currency(currency)
    IN  quantize(Dec(rounded_to_subunits), decimal_precision)

\* ------------------------------------------------------------ values

Money(amount, currency) == [amount |-> amount, currency |-> currency]

NoMoney == Money(0, "none")

\* What an operation hands back: a raised exception (status), or a value of
\* one kind: a Money, a bool, a number num/den (float or int), a hash.
Result(status, kind, money, num, den, bool) ==
    [status |-> status, kind |-> kind, money |-> money,
     num |-> num, den |-> den, bool |-> bool]

Raise(exception) == Result(exception, "none", NoMoney, 0, 1, FALSE)

ReturnMoney(m) == Result("ok", "Money", m, 0, 1, FALSE)

ReturnBool(b) == Result("ok", "bool", NoMoney, 0, 1, b)

ReturnNumber(num, den) == Result("ok", "number", NoMoney, num, den, FALSE)

\* The right-hand operand of a binary operator: a Money or a scalar num/den.
MoneyOperand(m) == [kind |-> "Money", money |-> m, num |-> 0, den |-> 1]

ScalarOperand(num, den) == [kind |-> "scalar", money |-> NoMoney, num |-> num, den |-> den]

NoOperand == [kind |-> "none", money |-> NoMoney, num |-> 0, den |-> 1]

\* isinstance(other, Money)
IsMoney(other) == other.kind = "Money"

\* Integer part of n/d, truncated toward zero: Decimal's // and int(Decimal).
TruncDiv(n, d) == Sign(n) * Sign(d) * (Abs(n) \div Abs(d))

\* ------------------------------------------------------- construction

\* The strict check is skipped: whatever is passed is stored.
Money__init__NoCheck(amount, currency, round) ==
    ReturnMoney(Money(IF round THEN _round(amount, currency)
                      ELSE TruncDiv(amount.num, amount.den), currency))

\* Money.__init__(amount, currency, round)
Money__init__(amount, currency, round) ==
    LET rounded_amount == _round(amount, currency)
    IN  IF round
        THEN ReturnMoney(Money(rounded_amount, currency))
        ELSE IF rounded_amount * amount.den # amount.num
             THEN Raise("InvalidAmountError")
             ELSE ReturnMoney(Money(amount.num \div amount.den, currency))

\* Money.from_sub_units(sub_units, currency)
from_sub_units(sub_units, currency) ==
    LET sub_units_per_unit == sub_unit_for_currency(currency)
    IN  Money__init__([num |-> sub_units * Unit, den |-> sub_units_per_unit],
                      currency, FALSE)

\* The truncation comes first: int(self.amount) * sub_units_per_unit.
sub_units_WholeUnits(self) ==
    TruncDiv(self.amount, Unit) * sub_unit_for_currency(self.currency)

\* Money.sub_units
sub_units(self) ==
    LET sub_units_per_unit == sub_unit_for_currency(self.currency)
    IN  TruncDiv(self.amount * sub_units_per_unit, Unit)

\* Money.__hash__: hash((self._amount, self._currency)), kept as the pair.
__hash__(self) == Result("ok", "hash", self, 0, 1, FALSE)

\* Money.__bool__
__bool__(self) == ReturnBool(self.amount # 0)

\* -------------------------------------------------------- comparison

\* Money._assert_same_currency: TRUE when it returns, FALSE when it raises.
_assert_same_currency(self, other) == self.currency = other.currency

\* The guards every comparison and add/subtract share, then the value.
Guarded(self, other, value) ==
    IF ~IsMoney(other) THEN Raise("InvalidOperandError")
    ELSE IF ~_assert_same_currency(self, other.money)
         THEN Raise("CurrencyMismatchError")
         ELSE value

__lt__(self, other) ==
    Guarded(self, other, ReturnBool(self.amount < other.money.amount))

__le__(self, other) ==
    Guarded(self, other, ReturnBool(self.amount <= other.money.amount))

__gt__(self, other) ==
    Guarded(self, other, ReturnBool(self.amount > other.money.amount))

__ge__(self, other) ==
    Guarded(self, other, ReturnBool(self.amount >= other.money.amount))

\* Equality that answers False across currencies instead of raising.
eq_NoCurrencyCheck(self, other) ==
    IF ~IsMoney(other) THEN Raise("InvalidOperandError")
    ELSE ReturnBool(self = other.money)

__eq__(self, other) ==
    Guarded(self, other, ReturnBool(self.amount = other.money.amount))

\* not self == other: an exception of __eq__ passes through.
__ne__(self, other) ==
    LET eq == __eq__(self, other)
    IN  IF eq.status # "ok" THEN eq ELSE ReturnBool(~eq.bool)

\* -------------------------------------------------------- arithmetic

__add__(self, other) ==
    Guarded(self, other,
            Money__init__(Dec(self.amount + other.money.amount), self.currency, FALSE))

\* A reflected add that treats a number as an amount of self's currency.
radd_CoerceScalar(self, other) ==
    IF IsMoney(other) THEN __add__(self, other)
    ELSE Money__init__([num |-> self.amount * other.den + other.num * Unit,
                        den |-> other.den], self.currency, TRUE)

__radd__(self, other) == __add__(self, other)

__sub__(self, other) ==
    Guarded(self, other,
            Money__init__(Dec(self.amount - other.money.amount), self.currency, FALSE))

__rsub__(self, other) == __sub__(self, other)

\* The product is wrapped without being rounded first.
mul_Unrounded(self, other) ==
    IF IsMoney(other) THEN Raise("InvalidOperandError")
    ELSE Money__init__([num |-> self.amount * other.num, den |-> other.den],
                       self.currency, FALSE)

\* self._amount * Decimal(other), rounded, then wrapped by the strict constructor.
__mul__(self, other) ==
    IF IsMoney(other) THEN Raise("InvalidOperandError")
    ELSE LET amount == _round([num |-> self.amount * other.num, den |-> other.den],
                              self.currency)
         IN  Money__init__(Dec(amount), self.currency, FALSE)

__rmul__(self, other) == __mul__(self, other)

\* amount / Decimal(other) for a nonzero scalar, the denominator kept positive.
DecQuotient(amount, other) ==
    [num |-> Sign(other.num) * amount * other.den, den |-> Abs(other.num)]

\* amount // Decimal(other): the integer part of the quotient, in whole units.
DecFloorQuotient(amount, other) ==
    TruncDiv(amount * other.den, Unit * other.num)

\* amount % Decimal(other): what the truncated quotient leaves.
DecRemainder(amount, other) ==
    [num |-> amount * other.den - DecFloorQuotient(amount, other) * Unit * other.num,
     den |-> other.den]

\* The shape the three division operators share: `ratio` for a Money divisor,
\* `quotient` (a Decimal) rounded and wrapped for a scalar divisor.
Division(self, other, ratio, quotient) ==
    IF IsMoney(other)
    THEN IF ~_assert_same_currency(self, other.money)
         THEN Raise("CurrencyMismatchError")
         ELSE IF other.money.amount = 0
              THEN Raise("ZeroDivisionError")
              ELSE ratio
    ELSE IF other.num = 0
         THEN Raise("ZeroDivisionError")
         ELSE Money__init__(Dec(_round(quotient, self.currency)), self.currency, FALSE)

\* The zero check comes before the currency check.
truediv_ZeroFirst(self, other) ==
    IF IsMoney(other)
    THEN IF other.money.amount = 0
         THEN Raise("ZeroDivisionError")
         ELSE IF ~_assert_same_currency(self, other.money)
              THEN Raise("CurrencyMismatchError")
              ELSE ReturnNumber(self.amount, other.money.amount)
    ELSE IF other.num = 0
         THEN Raise("ZeroDivisionError")
         ELSE Money__init__(Dec(_round(DecQuotient(self.amount, other), self.currency)),
                            self.currency, FALSE)

\* The quotient by a scalar is wrapped without being rounded first.
truediv_Unrounded(self, other) ==
    IF IsMoney(other) \/ other.num = 0
    THEN Division(self, other,
                  ReturnNumber(self.amount, other.money.amount),
                  DecQuotient(self.amount, other))
    ELSE Money__init__(DecQuotient(self.amount, other), self.currency, FALSE)

__truediv__(self, other) ==
    Division(self, other,
             ReturnNumber(self.amount, other.money.amount),
             DecQuotient(self.amount, other))

__floordiv__(self, other) ==
    Division(self, other,
             ReturnNumber(TruncDiv(self.amount, other.money.amount), 1),
             Dec(DecFloorQuotient(self.amount, other) * Unit))

__mod__(self, other) ==
    Division(self, other,
             ReturnNumber(self.amount
                          - TruncDiv(self.amount, other.money.amount) * other.money.amount,
                          Unit),
             DecRemainder(self.amount, other))

__neg__(self) == Money__init__(Dec(-self.amount), self.currency, FALSE)

__pos__(self) == Money__init__(Dec(self.amount), self.currency, FALSE)

__abs__(self) == Money__init__(Dec(Abs(self.amount)), self.currency, FALSE)

\* ------------------------------------------------------------- inputs

\* Amounts handed to the constructor, in ulps: 4 and 5 at every decimal
\* position (a tie and a non-tie of every quantum), both signs, zero, and the
\* amounts of the tests (4.4985, 5.5, 10.2, 3.956, 3.95, 1.5, 0.445).
AmountInputs ==
    {s * m * Pow10(j) : s \in {-1, 1}, m \in {4, 5}, j \in 0..FracDigits}
    \cup {0}
    \cup {s * k * (Unit \div 10000) :
            s \in {-1, 1}, k \in {44985, 55000, 102000, 39560, 39500, 15000, 4450}}

\* The amounts the operand Money values are built from: 0, 1, -5, 0.05, -1.5.
PoolAmounts == {0, Unit, -5 * Unit, 5 * (Unit \div 100), -15 * (Unit \div 10)}

\* The currencies of the operand Money values: one of each relation between
\* sub-unit digits and display precision (equal, equal at zero, fewer, more).
PoolCurrencies == {"USD", "JPY", "GNF", "XTS"}

\* Sub-unit counts handed to from_sub_units.
SubUnitInputs == (0..MaxSubUnits) \cup {100, 101, 150, 1000, 1500}

\* The sub-unit counts the operand Money values are built from.
PoolSubUnits == {100}

\* Scalar operands num/den, each the exact value Decimal(other) takes:
\* 0, 2, -3/2 (-1.5) and 99/200 (Decimal("0.495")).
Scalars ==
    {ScalarOperand(0, 1), ScalarOperand(2, 1), ScalarOperand(-3, 2),
     ScalarOperand(99, 200)}

\* ------------------------------------------------------------- state

VARIABLES
    pool,   \* the Money instances that exist (what the caller holds)
    last    \* the call that has just returned or raised: the operation, its
            \* arguments and its outcome; NoCall once the caller has moved on

vars == <<pool, last>>

Operands == {MoneyOperand(m) : m \in pool} \cup Scalars

Call(op, self, other, amount, currency, round, n, res) ==
    [op |-> op, self |-> self, other |-> other, amount |-> amount,
     currency |-> currency, round |-> round, n |-> n, res |-> res]

NoCall == Call("none", NoMoney, NoOperand, Dec(0), "none", FALSE, 0, Raise("none"))

\* A Money that comes back is within the modelled magnitudes.
InBounds(res) ==
    (res.status = "ok" /\ res.kind = "Money") => Abs(res.money.amount) <= MaxUnits * Unit

\* An operator that works in place: its result overwrites self.
Record_InPlace(call) ==
    /\ last = NoCall
    /\ InBounds(call.res)
    /\ last' = call
    /\ pool' = IF call.res.status = "ok" /\ call.res.kind = "Money"
               THEN (pool \ {call.self}) \cup {call.res.money}
               ELSE pool

\* The caller makes one call at a time.  The call is recorded; a Money that
\* comes back is a new instance, kept while the caller has room for it.  No
\* instance already in the pool is touched.
Record(call) ==
    /\ last = NoCall
    /\ InBounds(call.res)
    /\ last' = call
    /\ pool' = IF /\ call.res.status = "ok"
                  /\ call.res.kind = "Money"
                  /\ Cardinality(pool) < MaxPool
               THEN pool \cup {call.res.money}
               ELSE pool

Unary(op, self, res) == Record(Call(op, self, NoOperand, Dec(0), "none", FALSE, 0, res))

Binary(op, self, other, res) == Record(Call(op, self, other, Dec(0), "none", FALSE, 0, res))

Init ==
    /\ pool = {}
    /\ last = NoCall

\* ------------------------------------------------------------- actions

ConstructFrom(amounts, currencies) ==
    /\ \E a \in amounts, c \in currencies, round \in BOOLEAN :
         Record(Call("__init__", NoMoney, NoOperand, Dec(a), c, round, 0,
                     Money__init__(Dec(a), c, round)))

FromSubUnitsOf(counts, currencies) ==
    /\ \E n \in counts, c \in currencies :
         Record(Call("from_sub_units", NoMoney, NoOperand, Dec(0), c, FALSE, n,
                     from_sub_units(n, c)))

\* A further operand is built while the caller has room for it.
Construct == Cardinality(pool) < MaxPool /\ ConstructFrom(PoolAmounts, PoolCurrencies)

FromSubUnits == Cardinality(pool) < MaxPool /\ FromSubUnitsOf(PoolSubUnits, PoolCurrencies)

\* The first instance is built from any amount, any count, of the grid.
ConstructAny == pool = {} /\ ConstructFrom(AmountInputs, Currency)

FromAnySubUnits == pool = {} /\ FromSubUnitsOf(SubUnitInputs, Currency)

\* The statement that made the call is over: its outcome is no longer at hand.
Return ==
    /\ last # NoCall
    /\ last' = NoCall
    /\ UNCHANGED pool

SubUnits == \E self \in pool : Unary("sub_units", self, ReturnNumber(sub_units(self), 1))

\* Money.from_sub_units(m.sub_units, m.currency) for a Money m at hand.
FromOwnSubUnits ==
    \E m \in pool :
        Record(Call("from_sub_units", NoMoney, NoOperand, Dec(0), m.currency, FALSE,
                    sub_units(m), from_sub_units(sub_units(m), m.currency)))

Hash == \E self \in pool : Unary("__hash__", self, __hash__(self))

Bool == \E self \in pool : Unary("__bool__", self, __bool__(self))

Lt == \E self \in pool, other \in Operands : Binary("__lt__", self, other, __lt__(self, other))

Le == \E self \in pool, other \in Operands : Binary("__le__", self, other, __le__(self, other))

Gt == \E self \in pool, other \in Operands : Binary("__gt__", self, other, __gt__(self, other))

Ge == \E self \in pool, other \in Operands : Binary("__ge__", self, other, __ge__(self, other))

Eq == \E self \in pool, other \in Operands : Binary("__eq__", self, other, __eq__(self, other))

Ne == \E self \in pool, other \in Operands : Binary("__ne__", self, other, __ne__(self, other))

Add == \E self \in pool, other \in Operands : Binary("__add__", self, other, __add__(self, other))

\* other + self with other not a Money (Money + Money is __add__).
RAdd == \E self \in pool, other \in Scalars : Binary("__radd__", self, other, __radd__(self, other))

Sub == \E self \in pool, other \in Operands : Binary("__sub__", self, other, __sub__(self, other))

\* other - self with other not a Money.
RSub == \E self \in pool, other \in Scalars : Binary("__rsub__", self, other, __rsub__(self, other))

Mul == \E self \in pool, other \in Operands : Binary("__mul__", self, other, __mul__(self, other))

\* other * self with other not a Money.
RMul == \E self \in pool, other \in Scalars : Binary("__rmul__", self, other, __rmul__(self, other))

TrueDiv ==
    \E self \in pool, other \in Operands :
        Binary("__truediv__", self, other, __truediv__(self, other))

FloorDiv ==
    \E self \in pool, other \in Operands :
        Binary("__floordiv__", self, other, __floordiv__(self, other))

Mod == \E self \in pool, other \in Operands : Binary("__mod__", self, other, __mod__(self, other))

Neg == \E self \in pool : Unary("__neg__", self, __neg__(self))

Pos == \E self \in pool : Unary("__pos__", self, __pos__(self))

AbsValue == \E self \in pool : Unary("__abs__", self, __abs__(self))

Next ==
    \/ Construct \/ FromSubUnits \/ Return
    \/ SubUnits \/ FromOwnSubUnits \/ Hash \/ Bool
    \/ Lt \/ Le \/ Gt \/ Ge \/ Eq \/ Ne
    \/ Add \/ RAdd \/ Sub \/ RSub \/ Mul \/ RMul
    \/ TrueDiv \/ FloorDiv \/ Mod
    \/ Neg \/ Pos \/ AbsValue

\* Operations on Money values built from a few amounts.
Spec == Init /\ [][Next]_vars

NextConstruct == ConstructAny \/ FromAnySubUnits \/ Return

\* The two constructors alone, over the whole grid of amounts and counts.
SpecConstruct == Init /\ [][NextConstruct]_vars

\* =============================================================== claims

\* Rounding as the specification words it, for a Decimal x = num/den ulps:
\* r is the multiple of `step` nearest to x, a tie going to the one farther
\* from zero.
IsHalfUp(r, x, step) ==
    /\ r % step = 0
    /\ 2 * Abs(r * x.den - x.num) <= step * x.den
    /\ (2 * Abs(r * x.den - x.num) = step * x.den) => (Abs(r) * x.den > Abs(x.num))

HalfUp(x, step) ==
    LET k0 == TruncDiv(x.num, x.den * step)
    IN  CHOOSE r \in {(k0 + d) * step : d \in -1..1} : IsHalfUp(r, x, step)

\* Stage 1: to a multiple of 1/subunit_divisor; stage 2: to display_precision
\* decimal digits.
TwoStage(x, c) ==
    HalfUp(Dec(HalfUp(x, Unit \div sub_unit_for_currency(c))),
           Unit \div Pow10(decimal_precision_for_currency(c)))

\* k ten-thousandths of a unit, in ulps (4.4985 is Amount(44985)).
Amount(k) == k * (Unit \div 10000)

IsInit == last.op = "__init__"

\* C1. Strict construction: Money(a, c) gives a Money of amount a and currency
\* c exactly when the two-stage rounding of a for c is a; otherwise it raises
\* InvalidAmountError and no instance comes to exist.
C1_StrictConstruction ==
    (IsInit /\ ~last.round) =>
        IF TwoStage(last.amount, last.currency) = last.amount.num
        THEN /\ last.res.status = "ok"
             /\ last.res.kind = "Money"
             /\ last.res.money = Money(last.amount.num, last.currency)
             /\ pool = {last.res.money}
        ELSE /\ last.res.status = "InvalidAmountError"
             /\ last.res.kind = "none"
             /\ pool = {}

\* Money("3.956", USD) has been refused.
C1_Witness ==
    /\ IsInit /\ ~last.round
    /\ last.amount = Dec(Amount(39560)) /\ last.currency = "USD"
    /\ last.res.status = "InvalidAmountError"

\* C2. Rounding construction: Money(a, c, round=True) never raises and its
\* amount is a rounded half-up to a multiple of 1/subunit_divisor(c), then
\* half-up to display_precision(c) digits; 4.4985 gives 4 for divisor 1 /
\* precision 0 and 5 for divisor 100 / precision 0, and 5.5 gives 6 for
\* divisor 1 / precision 0.
C2_RoundingConstruction ==
    (IsInit /\ last.round) =>
        /\ last.res.status = "ok"
        /\ last.res.kind = "Money"
        /\ last.res.money = Money(TwoStage(last.amount, last.currency), last.currency)
        /\ (last.amount.num = Amount(44985) /\ last.currency = "JPY")
               => last.res.money.amount = 4 * Unit
        /\ (last.amount.num = Amount(44985) /\ last.currency = "GNF")
               => last.res.money.amount = 5 * Unit
        /\ (last.amount.num = Amount(55000) /\ last.currency = "JPY")
               => last.res.money.amount = 6 * Unit

\* Money("4.4985", GNF, round=True) has given 5.
C2_Witness ==
    /\ IsInit /\ last.round
    /\ last.amount = Dec(Amount(44985)) /\ last.currency = "GNF"
    /\ last.res.money = Money(5 * Unit, "GNF")

\* C3. Idempotent rounding: for the amount a and the currency c of every
\* construction, whatever the relation between c's sub-unit digits and its
\* display precision, round(round(a, c), c) = round(a, c).
C3_IdempotentRounding ==
    IsInit =>
        _round(Dec(_round(last.amount, last.currency)), last.currency)
            = _round(last.amount, last.currency)

\* 0.445 has been rounded for XTS (divisor 10, precision 2) to 0.4, not itself.
C3_Witness ==
    /\ IsInit /\ last.round
    /\ last.amount = Dec(Amount(4450)) /\ last.currency = "XTS"
    /\ last.res.money.amount = Amount(4000)
    /\ decimal_precision_for_currency("XTS")
           # QuantumDigits(sub_unit_for_currency("XTS"))

\* C4. Sub-unit round-trip: Money.from_sub_units(n, c) succeeds for every
\* n >= 0 and every currency c, and its sub_units is n.
C4_SubUnitRoundTrip ==
    last.op = "from_sub_units" =>
        /\ last.res.status = "ok"
        /\ last.res.kind = "Money"
        /\ sub_units(last.res.money) = last.n

CompareOps == {"__lt__", "__le__", "__gt__", "__ge__", "__eq__", "__ne__"}

\* C5. Currency-mismatch guard: each of the six comparisons, add and subtract
\* between two Money of different currencies raises CurrencyMismatchError and
\* returns nothing, whatever the amounts.
C5_CurrencyMismatchGuard ==
    ( /\ last.op \in CompareOps \cup {"__add__", "__sub__"}
      /\ IsMoney(last.other)
      /\ last.self.currency # last.other.money.currency )
    => last.res = Raise("CurrencyMismatchError")

\* == between equal amounts of two currencies has raised.
C5_Witness ==
    /\ last.op = "__eq__" /\ IsMoney(last.other)
    /\ last.self.amount = last.other.money.amount
    /\ last.self.currency # last.other.money.currency
    /\ last.res.status = "CurrencyMismatchError"

\* C6. Type guard: each of the six comparisons of a Money with a non-Money
\* value, and add and subtract in both operand orders, raises
\* InvalidOperandError.
C6_TypeGuard ==
    ( /\ last.op \in CompareOps \cup {"__add__", "__radd__", "__sub__", "__rsub__"}
      /\ ~IsMoney(last.other) )
    => last.res = Raise("InvalidOperandError")

\* number + Money has raised.
C6_Witness ==
    /\ last.op = "__radd__" /\ last.other.kind = "scalar" /\ last.other.num # 0
    /\ last.res.status = "InvalidOperandError"

\* The product self.amount * other as a Decimal.
Product(self, other) == [num |-> self.amount * other.num, den |-> other.den]

\* C7. Multiply: m * s for a scalar s is a Money of m's currency whose amount
\* is the two-stage rounding of m.amount * s; s * m equals m * s; m * m2 for a
\* Money m2 raises InvalidOperandError.
C7_Multiply ==
    /\ (last.op \in {"__mul__", "__rmul__"} /\ ~IsMoney(last.other))
         => last.res = ReturnMoney(Money(TwoStage(Product(last.self, last.other),
                                                  last.self.currency),
                                         last.self.currency))
    /\ (last.op = "__rmul__") => last.res = __mul__(last.self, last.other)
    /\ (last.op = "__mul__" /\ IsMoney(last.other))
         => last.res = Raise("InvalidOperandError")

\* Money(1, GNF) * 0.495 has given 1: 0.495 -> 0.50 -> 1.
C7_Witness ==
    /\ last.op = "__mul__"
    /\ last.self = Money(Unit, "GNF") /\ last.other = ScalarOperand(99, 200)
    /\ last.res.money = Money(Unit, "GNF")

DivisionOps == {"__truediv__", "__floordiv__", "__mod__"}

\* C8. Division failures: for true-divide, floor-divide and modulo, a Money
\* divisor of another currency raises CurrencyMismatchError, a zero Money
\* divisor of the same currency and a zero scalar raise ZeroDivisionError; every
\* other call succeeds, with a plain number for a Money divisor and a Money of
\* the same currency for a scalar divisor.
C8_DivisionFailures ==
    last.op \in DivisionOps =>
        IF IsMoney(last.other)
        THEN IF last.self.currency # last.other.money.currency
             THEN last.res = Raise("CurrencyMismatchError")
             ELSE IF last.other.money.amount = 0
                  THEN last.res = Raise("ZeroDivisionError")
                  ELSE last.res.status = "ok" /\ last.res.kind = "number"
        ELSE IF last.other.num = 0
             THEN last.res = Raise("ZeroDivisionError")
             ELSE /\ last.res.status = "ok"
                  /\ last.res.kind = "Money"
                  /\ last.res.money.currency = last.self.currency

\* A division by a zero Money of another currency has raised the mismatch.
C8_Witness ==
    /\ last.op \in DivisionOps /\ IsMoney(last.other)
    /\ last.other.money.amount = 0
    /\ last.self.currency # last.other.money.currency
    /\ last.res.status = "CurrencyMismatchError"

\* The largest integer not greater than n/d.
Floor(n, d) == IF d > 0 THEN n \div d ELSE (-n) \div (-d)

\* C9. Floor semantics for every sign: a // b is the largest integer not
\* greater than a.amount / b.amount and a % b is a.amount - (a // b) * b.amount;
\* for a nonzero scalar s, a // s and a % s are the Money of the two-stage
\* rounding of that floor quotient and of that remainder.
C9_FloorSemantics ==
    (last.op \in {"__floordiv__", "__mod__"} /\ last.res.status = "ok") =>
        LET a == last.self.amount
            c == last.self.currency
            b == last.other.money.amount
            s == last.other
            q == IF IsMoney(s) THEN Floor(a, b) ELSE Floor(a * s.den, Unit * s.num)
        IN  CASE last.op = "__floordiv__" /\ IsMoney(s) ->
                    last.res.num = q * last.res.den
              [] last.op = "__mod__" /\ IsMoney(s) ->
                    last.res.num * Unit = (a - q * b) * last.res.den
              [] last.op = "__floordiv__" /\ ~IsMoney(s) ->
                    last.res.money = Money(TwoStage(Dec(q * Unit), c), c)
              [] last.op = "__mod__" /\ ~IsMoney(s) ->
                    last.res.money
                        = Money(TwoStage([num |-> a * s.den - q * Unit * s.num,
                                          den |-> s.den], c), c)

ArithmeticOps ==
    {"__add__", "__radd__", "__sub__", "__rsub__", "__mul__", "__rmul__",
     "__truediv__", "__floordiv__", "__mod__", "__neg__", "__pos__", "__abs__"}

IsCanonical(m) ==
    /\ m.currency \in Currency
    /\ TwoStage(Dec(m.amount), m.currency) = m.amount

\* C10. Canonical amounts over any sequence of operations: every Money that a
\* constructor, from_sub_units or an arithmetic operator produces has an amount
\* equal to its own two-stage rounding and the currency of its Money operand
\* (of the call, for a constructor); no arithmetic operator on existing Money
\* values raises InvalidAmountError.
C10_CanonicalAmount ==
    /\ \A m \in pool : IsCanonical(m)
    /\ (last.res.status = "ok" /\ last.res.kind = "Money") =>
          /\ IsCanonical(last.res.money)
          /\ last.res.money.currency
                = (IF last.op \in ArithmeticOps THEN last.self.currency ELSE last.currency)
    /\ last.op \in ArithmeticOps => last.res.status # "InvalidAmountError"

\* A Money that a multiplication produced has been divided by -3/2, and the
\* quotient is a Money with a nonzero amount.
C10_Witness ==
    /\ last.op = "__truediv__" /\ last.other = ScalarOperand(-3, 2)
    /\ \E m \in pool, s \in Scalars :
          /\ __mul__(m, s) = ReturnMoney(last.self)
          /\ last.self # m
    /\ last.res.kind = "Money" /\ last.res.money.amount # 0
    /\ last.res.money \in pool

\* C11. Immutability: no operation, whether it returns or raises, changes the
\* amount or the currency of an existing Money: every instance that existed
\* before a step exists unchanged after it, the operands of the call included;
\* an arithmetic result is a further instance.
C11_Immutability ==
    [][ /\ \A m \in pool : m \in pool'
        /\ (last'.self # NoMoney) => (last'.self \in pool /\ last'.self \in pool')
        /\ IsMoney(last'.other)
              => (last'.other.money \in pool /\ last'.other.money \in pool') ]_vars

\* A subtraction of two different Money has returned a third amount, and both
\* operands are still there as they were.
C11_Witness ==
    /\ last.op = "__sub__" /\ last.res.status = "ok"
    /\ last.self # last.other.money
    /\ last.res.money \notin {last.self, last.other.money}
    /\ {last.self, last.other.money} \subseteq pool

\* C12. Sub-unit conversion is lossless: for every Money m, of any sign and
\* any currency, m.amount * subunit_divisor(m.currency) is an integer, so
\* sub_units is that product with nothing cut off, and from_sub_units of that
\* count and m's currency succeeds with a Money equal to m.
C12_SubUnitsLossless ==
    /\ \A m \in pool : (m.amount * sub_unit_for_currency(m.currency)) % Unit = 0
    /\ (last.op = "sub_units")
          => /\ last.res.status = "ok"
             /\ last.res.num * Unit
                    = last.self.amount * sub_unit_for_currency(last.self.currency)
    /\ \A m \in pool :
          (/\ last.op = "from_sub_units"
           /\ last.currency = m.currency
           /\ last.n * Unit = m.amount * sub_unit_for_currency(m.currency))
          => /\ last.res = ReturnMoney(m)
             /\ __eq__(last.res.money, MoneyOperand(m)) = ReturnBool(TRUE)

\* Money(-1.5, USD) has been rebuilt from its own -150 sub-units.
C12_Witness ==
    /\ last.op = "from_sub_units"
    /\ last.currency = "USD"
    /\ last.n = -150
    /\ Money(-15 * (Unit \div 10), "USD") \in pool
    /\ last.res = ReturnMoney(Money(-15 * (Unit \div 10), "USD"))

====
